---- MODULE Spec2Model ----
(***************************************************************************)
(* A model of src/src/bcf2.rs: the BCF2 typed-value primitives, the header *)
(* parser, the record reader and the genotype iterator.                    *)
(*                                                                         *)
(* Representation choices                                                  *)
(*  - a byte is a number in 0..255, a buffer is a sequence of bytes;       *)
(*    cursor positions and ranges are 0-based as in the source;            *)
(*  - a 32-bit value that is *decoded* (u32/f32 array element) is kept as  *)
(*    two 16-bit halves [hi, lo] so that all of 0..2^32-1 is covered and   *)
(*    wrap-around is explicit;                                             *)
(*  - lengths, counts and keys are numbers (the inputs keep them small);   *)
(*  - a panic (unwrap on Err, assert, slice out of range, checked          *)
(*    arithmetic) is an explicit outcome;                                  *)
(*  - overflow_checks is the build's integer-overflow mode: TRUE for a     *)
(*    build that panics on overflow (debug), FALSE for one that wraps      *)
(*    (release).  Both are builds of this source.                          *)
(***************************************************************************)
EXTENDS Integers, Sequences, FiniteSets, TLC

VARIABLES
    overflow_checks, \* build mode, fixed for a run
    val,             \* value layer: the NumbericValue under test
    call,            \* value layer: the function applied last
    out,             \* value layer: what it returned
    text,            \* header layer: the header text, as a sequence of lines
    hdr,             \* the Header built by Header::from_string (or its panic)
    input,           \* record layer: what the reader held when read was called
    rec,             \* the (reused) Record instance
    outcome,         \* outcome of the last Record::read
    reuse,           \* history: how the last successful read changed the record's sizes
    it,              \* the live NumberIter, if any
    yielded          \* the items the live NumberIter has yielded so far

vars == <<overflow_checks, val, call, out, text, hdr, input, rec, outcome, reuse, it, yielded>>


(***************************************************************************)
(* Bounds                                                                  *)
(***************************************************************************)
Near == 2        \* sampled values lie within Near of each boundary value
MaxLines == 3    \* lines of a header text
MaxAllele == 1   \* alleles of an input record
MaxInfo == 1     \* INFO entries of an input record
MaxFmt == 2      \* FORMAT entries of an input record
MaxSample == 2   \* samples of an input record

(***************************************************************************)
(* 32-bit words as two 16-bit halves                                       *)
(***************************************************************************)
W(h, l) == [hi |-> h, lo |-> l]

WFromInt(n) == W(n \div 65536, n % 65536)

\* x + y on u32, wrapped; WAddOverflows tells whether it wrapped
WAddWrap(x, y) ==
    LET l == x.lo + y.lo
        h == x.hi + y.hi + (l \div 65536)
    IN  W(h % 65536, l % 65536)

WAddOverflows(x, y) == x.hi + y.hi + ((x.lo + y.lo) \div 65536) >= 65536

\* x - y on u32, wrapped; WSubOverflows tells whether it wrapped
WSubWrap(x, y) ==
    LET l == x.lo - y.lo
        b == IF l < 0 THEN 1 ELSE 0
        h == x.hi - y.hi - b
    IN  W((h + 65536) % 65536, (l + 65536) % 65536)

WSubOverflows(x, y) == x.hi < y.hi \/ (x.hi = y.hi /\ x.lo < y.lo)

WShr1(x) == W(x.hi \div 2, (x.hi % 2) * 32768 + (x.lo \div 2))

U32_MAX == W(65535, 65535)

(***************************************************************************)
(* Bcf2Number: sentinel classification                                     *)
(***************************************************************************)
U8_MISSING == 128
U8_EOV == 129
U16_MISSING == 32768
U16_EOV == 32769
U32_MISSING == W(32768, 0)
U32_EOV == W(32768, 1)
F32_MISSING == W(32704, 0)
F32_EOV == W(32704, 1)

u8_is_missing(x) == x = U8_MISSING
u8_is_end_of_vector(x) == x = U8_EOV
u16_is_missing(x) == x = U16_MISSING
u16_is_end_of_vector(x) == x = U16_EOV
u32_is_missing(x) == x = U32_MISSING
u32_is_end_of_vector(x) == x = U32_EOV

\* `f as u32` for the f32 whose bit pattern is b: Rust's saturating numeric cast
\* (NaN -> 0, negative -> 0, too large -> u32::MAX, otherwise truncation).
f32_as_u32(b) ==
    LET sign == b.hi \div 32768
        exp  == (b.hi % 32768) \div 128
        mant == (b.hi % 128) * 65536 + b.lo
        sig  == 8388608 + mant          \* 2^23 + mantissa, for a normal number
        e    == exp - 127
    IN  IF exp = 255 /\ mant # 0 THEN W(0, 0)        \* NaN
        ELSE IF sign = 1 THEN W(0, 0)                \* negative, -0, -inf
        ELSE IF exp < 127 THEN W(0, 0)               \* below 1.0 (and subnormal)
        ELSE IF e >= 32 THEN U32_MAX                 \* >= 2^32, +inf
        ELSE IF e <= 23 THEN WFromInt(sig \div (2 ^ (23 - e)))
        ELSE W(sig \div (2 ^ (39 - e)), (sig % (2 ^ (39 - e))) * (2 ^ (e - 23)))

f32_is_missing(b) == f32_as_u32(b) = F32_MISSING
f32_is_end_of_vector(b) == f32_as_u32(b) = F32_EOV

(***************************************************************************)
(* bcf2_typ_width; Panic stands for the panic!() arm (and, below, for any   *)
(* other panic: unwrap on Err, assert_eq!, slice index, checked overflow)  *)
(***************************************************************************)
Panic == [ok |-> FALSE]
Ok(x) == [ok |-> TRUE, v |-> x]

bcf2_typ_width(typ) ==
    CASE typ = 0 -> Ok(0)
      [] typ = 1 -> Ok(1)
      [] typ = 2 -> Ok(2)
      [] typ = 3 -> Ok(3)
      [] typ = 5 -> Ok(3)
      [] typ = 7 -> Ok(1)
      [] OTHER -> Panic

(***************************************************************************)
(* NumbericValue: [tag, bits]                                              *)
(***************************************************************************)
NV(tag, bits) == [tag |-> tag, bits |-> bits]

None == [some |-> FALSE]
Some(x) == [some |-> TRUE, v |-> x]

int_val(v) ==
    CASE v.tag = "U8"  /\ ~u8_is_missing(v.bits.lo)  -> Some(v.bits)
      [] v.tag = "U16" /\ ~u16_is_missing(v.bits.lo) -> Some(v.bits)
      [] v.tag = "U32" /\ ~u32_is_missing(v.bits)    -> Some(v.bits)
      [] OTHER -> None

float_val(v) ==
    IF v.tag = "F32" /\ ~f32_is_missing(v.bits) THEN Some(v.bits) ELSE None

GtTuple(np, d, p, a) ==
    Ok([no_ploidy |-> np, is_dot |-> d, phased |-> p, allele |-> a])

\* gt_val with the allele index left one too high: (int_val >> 1), not (int_val >> 1) - 1
gt_val_no_decrement(v, checks) ==
    LET iv == int_val(v) IN
    IF ~iv.some THEN GtTuple(TRUE, FALSE, FALSE, U32_MAX)
    ELSE IF WAddOverflows(iv.v, W(0, 1)) /\ checks THEN Panic
    ELSE IF WAddWrap(iv.v, W(0, 1)) = W(0, 0) THEN GtTuple(FALSE, TRUE, FALSE, U32_MAX)
    ELSE GtTuple(FALSE, FALSE, (iv.v.lo % 2) # 0, WShr1(iv.v))

\* gt_val under the build mode `checks` (TRUE: arithmetic overflow panics)
gt_val(v, checks) ==
    LET iv == int_val(v) IN
    IF ~iv.some THEN GtTuple(TRUE, FALSE, FALSE, U32_MAX)
    ELSE IF WAddOverflows(iv.v, W(0, 1)) /\ checks THEN Panic   \* int_val + 1
    ELSE IF WAddWrap(iv.v, W(0, 1)) = W(0, 0) THEN GtTuple(FALSE, TRUE, FALSE, U32_MAX)
    ELSE IF WSubOverflows(WShr1(iv.v), W(0, 1)) /\ checks THEN Panic  \* (int_val >> 1) - 1
    ELSE GtTuple(FALSE, FALSE, (iv.v.lo % 2) # 0, WSubWrap(WShr1(iv.v), W(0, 1)))

\* Record::qual on a stored quality with bit pattern q
qual(q) == IF f32_is_missing(q) THEN None ELSE Some(q)

(***************************************************************************)
(* Header::from_string                                                     *)
(*                                                                         *)
(* The text is a sequence of lines (the result of trimming and splitting   *)
(* on "\n").  A line is one of                                             *)
(*   [kind |-> "chrom", cols]        starts with "#CHROM"; cols = its      *)
(*                                   tab-separated fields                  *)
(*   [kind |-> "blank"]              empty after trim                      *)
(*   [kind |-> "meta", name, struct, items]                                *)
(*                                   "##name=value"; struct says whether   *)
(*                                   the value starts with "<"; items are  *)
(*                                   the comma-separated pieces between    *)
(*                                   "<" and the last ">", each <<k, v>>   *)
(*                                   or, when the piece has no "=", <<k>>  *)
(*   [kind |-> "other"]              anything else (no "##" prefix)        *)
(* A HashMap<String, String> is a function from its keys to its values.    *)
(***************************************************************************)
MapInsert(m, k, v) == [x \in (DOMAIN m) \cup {k} |-> IF x = k THEN v ELSE m[x]]

EmptyMap == [x \in {} |-> ""]

\* the implicit FILTER/PASS entry
PassEntry ==
    MapInsert(MapInsert(MapInsert(EmptyMap, "Dictionary", "FILTER"), "ID", "PASS"),
              "Description", "\"All filters passed\"")

\* the loop over the key=value pieces of one line; Panic when a piece has no value
RECURSIVE ParseItems(_, _, _)
ParseItems(items, i, m) ==
    IF i > Len(items) THEN Ok(m)
    ELSE IF Len(items[i]) < 2 THEN Panic
    ELSE ParseItems(items, i + 1, MapInsert(m, items[i][1], items[i][2]))

\* the samples a "#CHROM" line contributes: its fields after the first 8
ChromSamples(cols) == SubSeq(cols, 9, Len(cols))

\* the loop body without the skip of an explicit FILTER/PASS line
FromStringLineKeepPass(h, line) ==
    IF line.kind = "chrom"
        THEN Ok([h EXCEPT !.samples = h.samples \o ChromSamples(line.cols)])
    ELSE IF line.kind = "blank" THEN Ok(h)
    ELSE IF line.kind = "other" THEN Panic
    ELSE IF ~line.struct THEN Ok(h)
    ELSE LET pm == ParseItems(line.items, 1, EmptyMap) IN
         IF ~pm.ok THEN Panic
         ELSE IF line.name = "contig"
             THEN Ok([h EXCEPT !.dict_contigs = Append(h.dict_contigs, pm.v)])
         ELSE IF line.name = "FILTER" /\ "ID" \notin DOMAIN pm.v THEN Panic
         ELSE Ok([h EXCEPT !.dict_strings =
                     Append(h.dict_strings, MapInsert(pm.v, "Dictionary", line.name))])

\* one iteration of the loop over lines; h = [dict_strings, dict_contigs, samples]
FromStringLine(h, line) ==
    IF line.kind = "chrom"
        THEN Ok([h EXCEPT !.samples = h.samples \o ChromSamples(line.cols)])
    ELSE IF line.kind = "blank" THEN Ok(h)
    ELSE IF line.kind = "other" THEN Panic              \* strip_prefix("##").unwrap()
    ELSE IF ~line.struct THEN Ok(h)                     \* !valid_dict
    ELSE LET pm == ParseItems(line.items, 1, EmptyMap) IN
         IF ~pm.ok THEN Panic
         ELSE IF line.name = "contig"
             THEN Ok([h EXCEPT !.dict_contigs = Append(h.dict_contigs, pm.v)])
         ELSE IF line.name = "FILTER" /\ "ID" \notin DOMAIN pm.v THEN Panic   \* m["ID"]
         ELSE IF line.name = "FILTER" /\ pm.v["ID"] = "PASS" THEN Ok(h)
         ELSE Ok([h EXCEPT !.dict_strings =
                     Append(h.dict_strings, MapInsert(pm.v, "Dictionary", line.name))])

RECURSIVE FromStringLoop(_, _, _)
FromStringLoop(lines, i, h) ==
    IF i > Len(lines) THEN Ok(h)
    ELSE LET r == FromStringLine(h, lines[i]) IN
         IF ~r.ok THEN Panic ELSE FromStringLoop(lines, i + 1, r.v)

\* the scan matching on ID == "GT" alone, whatever the entry's dictionary
RECURSIVE ScanFmtGtAnyDictionary(_, _, _)
ScanFmtGtAnyDictionary(ds, idx, cur) ==
    IF idx >= Len(ds) THEN Ok(cur)
    ELSE LET m == ds[idx + 1] IN
         IF "ID" \in DOMAIN m /\ m["ID"] = "GT"
         THEN ScanFmtGtAnyDictionary(ds, idx + 1, idx)
         ELSE ScanFmtGtAnyDictionary(ds, idx + 1, cur)

\* the scan for FORMAT/GT; idx is 0-based as in the source, cur the index found so far
RECURSIVE ScanFmtGt(_, _, _)
ScanFmtGt(ds, idx, cur) ==
    IF idx >= Len(ds) THEN Ok(cur)
    ELSE LET m == ds[idx + 1] IN
         IF m["Dictionary"] = "FORMAT"
         THEN IF "ID" \notin DOMAIN m THEN Panic
              ELSE ScanFmtGt(ds, idx + 1, IF m["ID"] = "GT" THEN idx ELSE cur)
         ELSE ScanFmtGt(ds, idx + 1, cur)

from_string(lines) ==
    LET r == FromStringLoop(lines, 1,
                 [dict_strings |-> <<PassEntry>>, dict_contigs |-> <<>>, samples |-> <<>>])
    IN  IF ~r.ok THEN Panic
        ELSE LET g == ScanFmtGt(r.v.dict_strings, 0, 0) IN
             IF ~g.ok THEN Panic
             ELSE Ok([dict_strings |-> r.v.dict_strings,
                      dict_contigs |-> r.v.dict_contigs,
                      samples |-> r.v.samples,
                      fmt_gt_idx |-> g.v])

get_fmt_gt_id(h) == h.fmt_gt_idx

(***************************************************************************)
(* Reads from a std::io::Cursor over buf at the 0-based position pos.      *)
(* A result is [ok |-> TRUE, v, pos] or Panic (the read's Err, unwrapped). *)
(* The cursor may stand beyond the end of buf after a seek; a read there   *)
(* fails.                                                                  *)
(***************************************************************************)
Rd(v, pos) == [ok |-> TRUE, v |-> v, pos |-> pos]

Range(s, e) == [start |-> s, end |-> e]

\* the little-endian unsigned number in the k bytes of buf after position pos
RECURSIVE LEInt(_, _, _)
LEInt(buf, pos, k) ==
    IF k = 0 THEN 0 ELSE buf[pos + 1] + 256 * LEInt(buf, pos + 1, k - 1)

read_uint(buf, pos, k) ==
    IF pos + k <= Len(buf) THEN Rd(LEInt(buf, pos, k), pos + k) ELSE Panic

read_u8(buf, pos) == read_uint(buf, pos, 1)
read_u16(buf, pos) == read_uint(buf, pos, 2)
\* read_u32 where the value is used as a length, count or key (below 2^31 here)
read_u32(buf, pos) == read_uint(buf, pos, 4)

read_i32(buf, pos) ==
    IF pos + 4 <= Len(buf)
    THEN Rd(LEInt(buf, pos, 3)
              + (IF buf[pos + 4] >= 128 THEN buf[pos + 4] - 256 ELSE buf[pos + 4]) * 16777216,
            pos + 4)
    ELSE Panic

\* read_u32 / read_f32 where the value is kept as a bit pattern
read_w32(buf, pos) ==
    IF pos + 4 <= Len(buf)
    THEN Rd(W(LEInt(buf, pos + 2, 2), LEInt(buf, pos, 2)), pos + 4)
    ELSE Panic

RECURSIVE read_typed_descriptor_bytes(_, _)
RECURSIVE read_single_typed_integer(_, _)

\* returns [ok, typ, n, pos]
read_typed_descriptor_bytes(buf, pos) ==
    LET b == read_u8(buf, pos) IN
    IF ~b.ok THEN Panic
    ELSE LET typ == b.v % 16
             n   == b.v \div 16
         IN  IF n = 15
             THEN LET r == read_single_typed_integer(buf, b.pos) IN
                  IF ~r.ok THEN Panic
                  ELSE [ok |-> TRUE, typ |-> typ, n |-> r.v, pos |-> r.pos]
             ELSE [ok |-> TRUE, typ |-> typ, n |-> n, pos |-> b.pos]

read_single_typed_integer(buf, pos) ==
    LET d == read_typed_descriptor_bytes(buf, pos) IN
    IF ~d.ok THEN Panic
    ELSE IF d.n # 1 THEN Panic                       \* assert_eq!(n, 1)
    ELSE CASE d.typ = 1 -> read_u8(buf, d.pos)
           [] d.typ = 2 -> read_u16(buf, d.pos)
           [] d.typ = 3 -> read_u32(buf, d.pos)
           [] OTHER -> Panic

(***************************************************************************)
(* Record                                                                  *)
(***************************************************************************)
DefaultRecord ==
    [buf_site |-> <<>>, buf_gt |-> <<>>,
     chrom |-> 0, pos |-> 0, rlen |-> 0, qual |-> W(0, 0),
     n_info |-> 0, n_allele |-> 0, n_sample |-> 0, n_fmt |-> 0,
     id |-> Range(0, 0), alleles |-> <<>>,
     filters |-> [typ |-> 0, n |-> 0, range |-> Range(0, 0)],
     info |-> <<>>, gt |-> <<>>]

Entry(key, typ, n, s, e) == [key |-> key, typ |-> typ, n |-> n, range |-> Range(s, e)]

\* a clear that is missing: the table keeps its entries
VecClearMissing(v) == v

\* Vec::clear
VecClear(v) == <<>>

\* Vec::resize(n, 0): truncate, or extend with zeros
VecResize(v, n) ==
    IF n <= Len(v) THEN SubSeq(v, 1, n)
    ELSE v \o [i \in 1..(n - Len(v)) |-> 0]

\* read_exact into the whole of buf from the bytes src (Len(src) >= Len(buf))
ReadExactInto(buf, src) == [i \in 1..Len(buf) |-> src[i]]

\* the loop over the alleles; acc is self.alleles
RECURSIVE ParseAlleles(_, _, _, _)
ParseAlleles(buf, pos, k, acc) ==
    IF k = 0 THEN Rd(acc, pos)
    ELSE LET d == read_typed_descriptor_bytes(buf, pos) IN
         IF ~d.ok THEN Panic
         ELSE IF d.typ # 7 THEN Panic                \* assert_eq!(typ, 0x7)
         ELSE ParseAlleles(buf, d.pos + d.n, k - 1, Append(acc, Range(d.pos, d.pos + d.n)))

\* the loop over the INFO entries; acc is self.info.
\* e = width * n lacks the start s: with e < s, e - s overflows (a panic under
\* overflow checks; otherwise it wraps, the cast to i64 is -(s - e) on a 64-bit
\* target, and the seek moves the cursor back to e).
RECURSIVE ParseInfos(_, _, _, _, _)
ParseInfos(buf, pos, k, acc, checks) ==
    IF k = 0 THEN Rd(acc, pos)
    ELSE LET key == read_single_typed_integer(buf, pos) IN
         IF ~key.ok THEN Panic
         ELSE LET d == read_typed_descriptor_bytes(buf, key.pos) IN
              IF ~d.ok THEN Panic
              ELSE LET width == bcf2_typ_width(d.typ) IN
                   IF ~width.ok THEN Panic
                   ELSE LET s == d.pos
                            e == width.v * d.n
                        IN  IF e < s /\ checks THEN Panic
                            ELSE ParseInfos(buf, e, k - 1,
                                            Append(acc, Entry(key.v, d.typ, d.n, s, e)), checks)

\* the loop over the FORMAT entries; acc is self.gt
RECURSIVE ParseFmts(_, _, _, _, _)
ParseFmts(buf, pos, k, n_sample, acc) ==
    IF k = 0 THEN Rd(acc, pos)
    ELSE LET key == read_single_typed_integer(buf, pos) IN
         IF ~key.ok THEN Panic
         ELSE LET d == read_typed_descriptor_bytes(buf, key.pos) IN
              IF ~d.ok THEN Panic
              ELSE LET width == bcf2_typ_width(d.typ) IN
                   IF ~width.ok THEN Panic
                   ELSE LET s == d.pos
                            e == s + width.v * n_sample * d.n
                        IN  ParseFmts(buf, e, k - 1, n_sample,
                                      Append(acc, Entry(key.v, d.typ, d.n, s, e)))

\* Record::parse_site_fields, as the sequence of its steps.  Each step takes
\* and returns a parse state c = [ok, r, pos]: the record so far and the
\* position of the cursor over r.buf_site; a panic gives Panic.
SiteState(r, pos) == [ok |-> TRUE, r |-> r, pos |-> pos]

\* the fixed fields: chrom, pos, rlen, qual, n_info, n_allele, n_sample, n_fmt
SiteFixed(r) ==
    LET buf == r.buf_site IN
    IF Len(buf) < 24 THEN Panic                       \* one of the fixed reads fails
    ELSE SiteState([r EXCEPT !.chrom = read_i32(buf, 0).v,
                             !.pos = read_i32(buf, 4).v,
                             !.rlen = read_i32(buf, 8).v,
                             !.qual = read_w32(buf, 12).v,
                             !.n_info = read_u16(buf, 16).v,
                             !.n_allele = read_u16(buf, 18).v,
                             \* combined = read_u32 at 20: low 24 bits, high 8 bits
                             !.n_sample = LEInt(buf, 20, 3),
                             !.n_fmt = buf[24]],
                   24)

\* the ID, the descriptor d already read
SiteIdRange(c, d) ==
    IF ~d.ok THEN Panic
    ELSE IF d.typ # 7 THEN Panic                      \* assert_eq!(typ, 0x7)
    ELSE SiteState([c.r EXCEPT !.id = Range(d.pos, d.pos + d.n)], d.pos + d.n)

SiteId(c) ==
    IF ~c.ok THEN Panic
    ELSE SiteIdRange(c, read_typed_descriptor_bytes(c.r.buf_site, c.pos))

\* the alleles, al the result of the loop
SiteAllelesDone(c, al) ==
    IF ~al.ok THEN Panic ELSE SiteState([c.r EXCEPT !.alleles = al.v], al.pos)

SiteAlleles(c) ==
    IF ~c.ok THEN Panic
    ELSE SiteAllelesDone(c, ParseAlleles(c.r.buf_site, c.pos, c.r.n_allele,
                                         VecClear(c.r.alleles)))

\* the FILTER array, the descriptor d and its width already read
SiteFilterRange(c, d, width) ==
    IF ~d.ok THEN Panic
    ELSE IF ~width.ok THEN Panic
    ELSE SiteState([c.r EXCEPT !.filters =
                       [typ |-> d.typ, n |-> d.n,
                        range |-> Range(d.pos, d.pos + width.v * d.n)]],
                   d.pos + width.v * d.n)

SiteFilterWidth(c, d) ==
    SiteFilterRange(c, d, IF d.ok THEN bcf2_typ_width(d.typ) ELSE Panic)

SiteFilter(c) ==
    IF ~c.ok THEN Panic
    ELSE SiteFilterWidth(c, read_typed_descriptor_bytes(c.r.buf_site, c.pos))

\* the INFO entries, nf the result of the loop
SiteInfosDone(c, nf) ==
    IF ~nf.ok THEN Panic ELSE SiteState([c.r EXCEPT !.info = nf.v], nf.pos)

SiteInfos(c, checks) ==
    IF ~c.ok THEN Panic
    ELSE SiteInfosDone(c, ParseInfos(c.r.buf_site, c.pos, c.r.n_info,
                                     VecClear(c.r.info), checks))

\* Record::parse_site_fields on r (whose buf_site is already filled): Ok(r') or Panic
SiteResult(c) == IF ~c.ok THEN Panic ELSE Ok(c.r)

parse_site_fields(r, checks) ==
    SiteResult(SiteInfos(SiteFilter(SiteAlleles(SiteId(SiteFixed(r)))), checks))

\* Record::parse_gt_fields on r: Ok(r') or Panic
GtFieldsDone(r, g) == IF ~g.ok THEN Panic ELSE Ok([r EXCEPT !.gt = g.v])

parse_gt_fields(r) ==
    GtFieldsDone(r, ParseFmts(r.buf_gt, 0, r.n_fmt, r.n_sample, VecClear(r.gt)))

\* Record::read on r from a reader that holds the bytes src and then ends.
\* Result: [res, rec] with res "Ok", "Err" (the io::Error of a failed length
\* read, returned to the caller) or "Panic".  A panic unwinds through the
\* caller, which drops the record: it is Dropped afterwards.
Dropped == [dropped |-> TRUE]

ReadResult(res, r) == [res |-> res, rec |-> IF res = "Panic" THEN Dropped ELSE r]

\* Ok(()), r2 the result of self.parse_gt_fields()
ReadParsed(r, r2) ==
    IF ~r2.ok THEN ReadResult("Panic", r) ELSE ReadResult("Ok", r2.v)

\* self.parse_gt_fields(), r1 the result of self.parse_site_fields()
ReadParseGt(r, r1) ==
    IF ~r1.ok THEN ReadResult("Panic", r)
    ELSE ReadParsed(r, parse_gt_fields(r1.v))

\* the two resizes and the two read_exact calls, then the two parses
ReadBodies(r, body, l_shared, l_indv, checks) ==
    IF Len(body) < l_shared THEN ReadResult("Panic", r)
    ELSE IF Len(body) < l_shared + l_indv THEN ReadResult("Panic", r)
    ELSE ReadParseGt(r,
            parse_site_fields(
                [r EXCEPT !.buf_site = ReadExactInto(VecResize(r.buf_site, l_shared), body),
                          !.buf_gt = ReadExactInto(VecResize(r.buf_gt, l_indv),
                                                   SubSeq(body, l_shared + 1, Len(body)))],
                checks))

read(r, src, checks) ==
    IF Len(src) < 4 THEN ReadResult("Err", r)          \* l_shared: Err(_x)?
    ELSE IF Len(src) < 8 THEN ReadResult("Err", r)     \* l_indv: ?
    ELSE ReadBodies(r, SubSeq(src, 9, Len(src)),
                    read_u32(src, 0).v, read_u32(src, 4).v, checks)

(***************************************************************************)
(* NumberIter: [typ, len, cur, data, pos]; data is the borrowed slice and  *)
(* pos the position of the cursor over it                                  *)
(***************************************************************************)
DefaultIter == [typ |-> 0, len |-> 0, cur |-> 0, data |-> <<>>, pos |-> 0]

iter_typed_integers(typ, n, buffer) ==
    [typ |-> typ, len |-> n, cur |-> 0, data |-> buffer, pos |-> 0]

\* NumberIter::next: [ok |-> TRUE, item, iter] with item None or Some(value), or Panic
IterStep(item, iter) == [ok |-> TRUE, item |-> item, iter |-> iter]

next(i) ==
    IF i.cur >= i.len THEN IterStep(None, i)
    ELSE CASE i.typ = 0 -> IterStep(None, i)
           [] i.typ = 1 ->
                LET r == read_u8(i.data, i.pos) IN
                IF ~r.ok THEN Panic
                ELSE IterStep(Some(NV("U8", W(0, r.v))),
                              [i EXCEPT !.cur = i.cur + 1, !.pos = r.pos])
           [] i.typ = 2 ->
                LET r == read_u16(i.data, i.pos) IN
                IF ~r.ok THEN Panic
                ELSE IterStep(Some(NV("U16", W(0, r.v))),
                              [i EXCEPT !.cur = i.cur + 1, !.pos = r.pos])
           [] i.typ = 3 ->
                LET r == read_w32(i.data, i.pos) IN
                IF ~r.ok THEN Panic
                ELSE IterStep(Some(NV("U32", r.v)),
                              [i EXCEPT !.cur = i.cur + 1, !.pos = r.pos])
           [] i.typ = 5 ->
                LET r == read_w32(i.data, i.pos) IN
                IF ~r.ok THEN Panic
                ELSE IterStep(Some(NV("F32", r.v)),
                              [i EXCEPT !.cur = i.cur + 1, !.pos = r.pos])
           [] OTHER -> Panic

\* &buf[s..e]: Ok(slice) or Panic (s > e, or e beyond the buffer)
Slice(buf, s, e) ==
    IF s <= e /\ e <= Len(buf) THEN Ok(SubSeq(buf, s + 1, e)) ELSE Panic

\* the for_each of Record::gt over self.gt from entry k on; acc is `it`
RECURSIVE GtScan(_, _, _, _)
GtScan(r, fmt_gt_id, k, acc) ==
    IF k > Len(r.gt) THEN Ok(acc)
    ELSE LET e == r.gt[k] IN
         IF e.key = fmt_gt_id
         THEN LET sl == Slice(r.buf_gt, e.range.start, e.range.end) IN
              IF ~sl.ok THEN Panic
              ELSE GtScan(r, fmt_gt_id, k + 1,
                          iter_typed_integers(e.typ, e.n * r.n_sample, sl.v))
         ELSE GtScan(r, fmt_gt_id, k + 1, acc)

\* Record::gt
gt(r, header) == GtScan(r, get_fmt_gt_id(header), 1, DefaultIter)

(***************************************************************************)
(* Value layer: the pure functions applied to sampled values               *)
(***************************************************************************)
\* the values within Near of c, inside 0..2^32-1
NearSet(c) ==
    {WAddWrap(c, W(0, k)) : k \in {j \in 0..Near : ~WAddOverflows(c, W(0, j))}}
    \cup {WSubWrap(c, W(0, k)) : k \in {j \in 0..Near : ~WSubOverflows(c, W(0, j))}}

IntBoundaries ==
    {W(0, 0), W(0, 128), W(0, 255), W(0, 32768), W(0, 65535),
     W(32768, 0), U32_MAX}

\* the BCF2 genotype encoding of allele a with phase bit p: ((a + 1) << 1) | p
WShl1(x) == W((x.hi * 2 + (x.lo \div 32768)) % 65536, (x.lo * 2) % 65536)
Encode(a, p) == WAddWrap(WShl1(WAddWrap(a, W(0, 1))), W(0, p))

\* alleles below 2^30, near the values whose encoding meets a stored width's
\* top bit or its all-ones value
AlleleBoundaries ==
    {W(0, 0), W(0, 63), W(0, 127), W(0, 16383), W(0, 32767), W(16383, 65535)}

AlleleSamples == {a \in UNION {NearSet(c) : c \in AlleleBoundaries} : a.hi < 16384}

IntSamples ==
    UNION {NearSet(c) : c \in IntBoundaries}
    \cup {Encode(a, p) : a \in AlleleSamples, p \in {0, 1}}

FloatBoundaries ==
    {W(0, 0), F32_MISSING, W(20223, 32768), W(16256, 0), W(32640, 0),
     W(20352, 0), W(32768, 0), U32_MAX}

FloatSamples == UNION {NearSet(c) : c \in FloatBoundaries}

NumValues ==
    {NV("U8", b) : b \in {x \in IntSamples : x.hi = 0 /\ x.lo < 256}}
    \cup {NV("U16", b) : b \in {x \in IntSamples : x.hi = 0}}
    \cup {NV("U32", b) : b \in IntSamples}
    \cup {NV("F32", b) : b \in FloatSamples}

NoCall == [fn |-> "none"]

ValueInit ==
    /\ overflow_checks \in BOOLEAN
    /\ val \in NumValues
    /\ call = NoCall
    /\ out = None

CallTypWidth ==
    \E t \in 0..15 :
        /\ call' = [fn |-> "bcf2_typ_width", typ |-> t]
        /\ out' = bcf2_typ_width(t)
        /\ UNCHANGED <<overflow_checks, val, text, hdr, input, rec, outcome, reuse, it, yielded>>

CallIsMissing ==
    /\ call' = [fn |-> "is_missing"]
    /\ out' = CASE val.tag = "U8"  -> u8_is_missing(val.bits.lo)
                [] val.tag = "U16" -> u16_is_missing(val.bits.lo)
                [] val.tag = "U32" -> u32_is_missing(val.bits)
                [] val.tag = "F32" -> f32_is_missing(val.bits)
    /\ UNCHANGED <<overflow_checks, val, text, hdr, input, rec, outcome, reuse, it, yielded>>

CallIsEndOfVector ==
    /\ call' = [fn |-> "is_end_of_vector"]
    /\ out' = CASE val.tag = "U8"  -> u8_is_end_of_vector(val.bits.lo)
                [] val.tag = "U16" -> u16_is_end_of_vector(val.bits.lo)
                [] val.tag = "U32" -> u32_is_end_of_vector(val.bits)
                [] val.tag = "F32" -> f32_is_end_of_vector(val.bits)
    /\ UNCHANGED <<overflow_checks, val, text, hdr, input, rec, outcome, reuse, it, yielded>>

CallIntVal ==
    /\ call' = [fn |-> "int_val"]
    /\ out' = int_val(val)
    /\ UNCHANGED <<overflow_checks, val, text, hdr, input, rec, outcome, reuse, it, yielded>>

CallGtVal ==
    /\ call' = [fn |-> "gt_val"]
    /\ out' = gt_val(val, overflow_checks)
    /\ UNCHANGED <<overflow_checks, val, text, hdr, input, rec, outcome, reuse, it, yielded>>

\* Record::qual on a record whose stored quality is val
CallQual ==
    /\ val.tag = "F32"
    /\ call' = [fn |-> "qual"]
    /\ out' = qual(val.bits)
    /\ UNCHANGED <<overflow_checks, val, text, hdr, input, rec, outcome, reuse, it, yielded>>

(***************************************************************************)
(* Record layer: input streams.                                            *)
(* The inputs are BCF2 records laid out as the format prescribes           *)
(* (element widths 1, 2, 4, 4, 1 for the types 1, 2, 3, 5, 7), and         *)
(* truncations of such records.  A record is described by                  *)
(*   [n_allele, filt, infos, n_sample, fmts]                               *)
(* where filt and each element of infos and fmts is [key, typ, n].         *)
(***************************************************************************)
FormatWidth(typ) ==
    CASE typ = 0 -> 0 [] typ = 1 -> 1 [] typ = 2 -> 2
      [] typ = 3 -> 4 [] typ = 5 -> 4 [] typ = 7 -> 1

RECURSIVE LEBytes(_, _)
LEBytes(n, k) == IF k = 0 THEN <<>> ELSE <<n % 256>> \o LEBytes(n \div 256, k - 1)

EncDesc(typ, n) == IF n < 15 THEN <<n * 16 + typ>> ELSE <<240 + typ, 17, n>>

EncInt(key) == <<17, key>>

\* len data bytes, all different from their neighbours
DataBytes(len, seed) == [i \in 1..len |-> (seed + 3 * i) % 256]

RECURSIVE Flatten(_)
Flatten(ss) == IF ss = <<>> THEN <<>> ELSE Head(ss) \o Flatten(Tail(ss))

EncSite(d) ==
    LEBytes(1, 4) \o LEBytes(7, 4) \o LEBytes(1, 4) \o <<0, 0, 192, 127>>
    \o LEBytes(Len(d.infos), 2) \o LEBytes(d.n_allele, 2)
    \o LEBytes(d.n_sample, 3) \o <<Len(d.fmts)>>
    \o EncDesc(7, 1) \o <<46>>
    \o Flatten([j \in 1..d.n_allele |-> EncDesc(7, 1) \o <<64 + j>>])
    \o EncDesc(d.filt.typ, d.filt.n) \o DataBytes(FormatWidth(d.filt.typ) * d.filt.n, 0)
    \o Flatten([j \in 1..Len(d.infos) |->
                  EncInt(d.infos[j].key) \o EncDesc(d.infos[j].typ, d.infos[j].n)
                  \o DataBytes(FormatWidth(d.infos[j].typ) * d.infos[j].n, 16 * j)])

EncIndv(d) ==
    Flatten([j \in 1..Len(d.fmts) |->
               EncInt(d.fmts[j].key) \o EncDesc(d.fmts[j].typ, d.fmts[j].n)
               \o DataBytes(FormatWidth(d.fmts[j].typ) * d.fmts[j].n * d.n_sample, 32 * j)])

EncRecord(d) ==
    LEBytes(Len(EncSite(d)), 4) \o LEBytes(Len(EncIndv(d)), 4) \o EncSite(d) \o EncIndv(d)

Field(key, typ, n) == [key |-> key, typ |-> typ, n |-> n]

SeqsUpTo(S, n) == UNION {[1..k -> S] : k \in 0..n}

FiltKinds == {Field(0, 0, 0), Field(0, 1, 1)}
\* a short INFO array, and one longer than the offset it is stored at
InfoKinds == {Field(1, 1, 1), Field(1, 1, 40)}
\* [typ, n]; the j-th FORMAT entry of a record gets the key j
FmtKinds == {<<1, 1>>, <<2, 2>>, <<3, 1>>, <<5, 1>>}

SiteKinds ==
    [n_allele : 0..MaxAllele, filt : FiltKinds, infos : SeqsUpTo(InfoKinds, MaxInfo)]

\* the FORMAT tables of the inputs: one-byte entries, at most one of them
\* replaced by an entry of another kind
FmtSeqs ==
    {ks \in SeqsUpTo(FmtKinds, MaxFmt) :
        Cardinality({j \in DOMAIN ks : ks[j] # <<1, 1>>}) <= 1}

IndvKinds ==
    {[n_sample |-> ns,
      fmts |-> [j \in DOMAIN ks |-> Field(j, ks[j][1], ks[j][2])]] :
        ns \in 0..MaxSample, ks \in FmtSeqs}

Desc(site, indv) ==
    [n_allele |-> site.n_allele, filt |-> site.filt, infos |-> site.infos,
     n_sample |-> indv.n_sample, fmts |-> indv.fmts]

BaseSite == [n_allele |-> 1, filt |-> Field(0, 1, 1), infos |-> <<>>]
BaseIndv == [n_sample |-> 1, fmts |-> <<Field(1, 1, 1)>>]

\* a record with no allele, no filter, no INFO entry and no FORMAT entry
EmptyDesc ==
    [n_allele |-> 0, filt |-> Field(0, 0, 0), infos |-> <<>>,
     n_sample |-> 0, fmts |-> <<>>]

RecDescs ==
    {Desc(BaseSite, indv) : indv \in IndvKinds}
    \cup {Desc(site, BaseIndv) : site \in SiteKinds}
    \cup {EmptyDesc}

\* where a stream may end inside a record: in and around the two length
\* fields, around the boundary between the two bodies, and before the last byte
Cuts(bytes) ==
    {k \in (0..8) \cup {7 + LEInt(bytes, 0, 4), 8 + LEInt(bytes, 0, 4), Len(bytes) - 1} :
        k < Len(bytes)}

TruncatedInputs ==
    UNION {{SubSeq(EncRecord(d), 1, k) : k \in Cuts(EncRecord(d))} :
             d \in {Desc(BaseSite, BaseIndv), Desc(BaseSite, [n_sample |-> 0, fmts |-> <<>>])}}

Inputs == {EncRecord(d) : d \in RecDescs} \cup TruncatedInputs

(***************************************************************************)
(* Header layer: sample lines                                              *)
(***************************************************************************)
Meta(name, items) == [kind |-> "meta", name |-> name, struct |-> TRUE, items |-> items]

LineSamples ==
    {[kind |-> "chrom",
      cols |-> <<"#CHROM", "POS", "ID", "REF", "ALT", "QUAL", "FILTER", "INFO", "S1", "S2">>],
     [kind |-> "blank"],
     [kind |-> "other"],
     [kind |-> "meta", name |-> "fileformat", struct |-> FALSE, items |-> <<>>],
     Meta("contig", <<<<"ID", "chr1">>, <<"length", "100">>>>),
     Meta("contig", <<<<"ID", "chr2">>>>),
     Meta("FILTER", <<<<"ID", "PASS">>, <<"Description", "All filters passed">>>>),
     Meta("FILTER", <<<<"ID", "q10">>>>),
     Meta("FILTER", <<<<"Description", "x">>>>),
     Meta("FORMAT", <<<<"ID", "GT">>, <<"Number", "1">>, <<"Type", "String">>>>),
     Meta("FORMAT", <<<<"ID", "DP">>, <<"Dictionary", "INFO">>>>),
     Meta("INFO", <<<<"ID", "GT">>>>),
     Meta("INFO", <<<<"ID", "PASS">>, <<"Description", "a">>, <<"b">>>>)}

HeaderTexts == SeqsUpTo(LineSamples, MaxLines)

\* the headers a record's genotypes are read with: GT absent, first, second
GtHeaderTexts ==
    {<<>>,
     <<Meta("FORMAT", <<<<"ID", "GT">>>>)>>,
     <<Meta("FORMAT", <<<<"ID", "DP">>>>), Meta("FORMAT", <<<<"ID", "GT">>>>)>>}

(***************************************************************************)
(* Specifications                                                          *)
(***************************************************************************)
NoHeader == [built |-> FALSE]
NoIter == [st |-> "none"]

ValueIdle == val = NV("U8", W(0, 0)) /\ call = NoCall /\ out = None
HeaderIdle == text = <<>> /\ hdr = NoHeader
RecordIdle ==
    input = <<>> /\ rec = DefaultRecord /\ outcome = "None" /\ reuse = "none"
    /\ it = NoIter /\ yielded = <<>>

\* the lengths of the two buffers and the three tables of a record
Sizes(r) == <<Len(r.buf_site), Len(r.buf_gt), Len(r.alleles), Len(r.info), Len(r.gt)>>

\* how a successful read changed the sizes of the record it was called on
Reuse(old, new) ==
    IF old = DefaultRecord THEN "fresh"
    ELSE IF Sizes(old) = Sizes(new) THEN "same"
    ELSE IF \A i \in 1..5 : Sizes(old)[i] >= Sizes(new)[i] THEN "shrunk"
    ELSE IF \A i \in 1..5 : Sizes(old)[i] <= Sizes(new)[i] THEN "grown"
    ELSE "mixed"

\* ---- value layer
SpecValueInit == ValueInit /\ HeaderIdle /\ RecordIdle
SpecValueNext ==
    \/ CallTypWidth
    \/ CallIsMissing
    \/ CallIsEndOfVector
    \/ CallIntVal
    \/ CallGtVal
    \/ CallQual
SpecValue == SpecValueInit /\ [][SpecValueNext]_vars

\* ---- header layer
HeaderInit ==
    /\ overflow_checks \in BOOLEAN
    /\ text \in HeaderTexts
    /\ hdr = NoHeader
    /\ ValueIdle /\ RecordIdle

FromString ==
    /\ hdr = NoHeader
    /\ hdr' = [built |-> TRUE, res |-> from_string(text)]
    /\ UNCHANGED <<overflow_checks, val, call, out, text, input, rec, outcome, reuse, it, yielded>>

SpecHeader == HeaderInit /\ [][FromString]_vars

\* ---- record layer
RecordInit ==
    /\ overflow_checks \in BOOLEAN
    /\ RecordIdle /\ ValueIdle /\ HeaderIdle

Alive == outcome # "Panic" /\ it.st # "panic"

\* record.read(&mut reader), the reader holding src and nothing after it when
\* src is not a whole record.  A reader that has run dry (the last read
\* returned Err) stays dry.
Read ==
    /\ Alive
    /\ it = NoIter
    /\ \E src \in (IF outcome = "Err" THEN {<<>>} ELSE Inputs) :
         LET r == read(rec, src, overflow_checks) IN
         /\ input' = src
         /\ rec' = r.rec
         /\ outcome' = r.res
         /\ reuse' = IF r.res = "Ok" THEN Reuse(rec, r.rec) ELSE "none"
    /\ UNCHANGED <<overflow_checks, val, call, out, text, hdr, it, yielded>>

\* let it = record.gt(&header)
Gt ==
    /\ Alive
    /\ it = NoIter
    /\ \E t \in GtHeaderTexts :
         LET h == from_string(t)
             g == gt(rec, h.v)
         IN  /\ hdr' = [built |-> TRUE, res |-> h]
             /\ it' = IF g.ok THEN [st |-> "live", iter |-> g.v] ELSE [st |-> "panic"]
    /\ yielded' = <<>>
    /\ UNCHANGED <<overflow_checks, val, call, out, text, input, rec, outcome, reuse>>

\* it.next()
IterNext ==
    /\ it.st = "live"
    /\ LET r == next(it.iter) IN
       IF ~r.ok THEN it' = [st |-> "panic"] /\ yielded' = yielded
       ELSE IF ~r.item.some THEN it' = [st |-> "done", iter |-> r.iter] /\ yielded' = yielded
       ELSE it' = [st |-> "live", iter |-> r.iter] /\ yielded' = Append(yielded, r.item.v)
    /\ UNCHANGED <<overflow_checks, val, call, out, text, hdr, input, rec, outcome, reuse>>

\* the iterator (and its borrow of the record) is dropped
DropIter ==
    /\ it.st \in {"live", "done"}
    /\ it' = NoIter
    /\ yielded' = <<>>
    /\ hdr' = NoHeader
    /\ UNCHANGED <<overflow_checks, val, call, out, text, input, rec, outcome, reuse>>

Next == Read \/ Gt \/ IterNext \/ DropIter

Spec == RecordInit /\ [][Next]_vars

(***************************************************************************)
(* Claims about the value layer (specification SpecValue)                  *)
(***************************************************************************)

\* C2: bcf2_typ_width maps 0 to 0, 1 to 1, 2 to 2, 3 to 4, 5 to 4 and 7 to 1, and
\* fails for every other type tag.
C2_WidthTable ==
    call.fn = "bcf2_typ_width" =>
        out = CASE call.typ = 0 -> Ok(0)
                [] call.typ = 1 -> Ok(1)
                [] call.typ = 2 -> Ok(2)
                [] call.typ = 3 -> Ok(4)
                [] call.typ = 5 -> Ok(4)
                [] call.typ = 7 -> Ok(1)
                [] OTHER -> Panic

\* whether the word x can be stored in a value of the given tag
Fits(tag, x) ==
    CASE tag = "U8"  -> x.hi = 0 /\ x.lo < 256
      [] tag = "U16" -> x.hi = 0
      [] tag = "U32" -> TRUE

MissingOf(tag) ==
    CASE tag = "U8"  -> W(0, U8_MISSING)
      [] tag = "U16" -> W(0, U16_MISSING)
      [] tag = "U32" -> U32_MISSING

AllOnesOf(tag) ==
    CASE tag = "U8"  -> W(0, 255)
      [] tag = "U16" -> W(0, 65535)
      [] tag = "U32" -> U32_MAX

IntTags == {"U8", "U16", "U32"}

\* C3 as stated: for every allele a in [0, 2^30) and phase bit p, gt_val of the
\* encoded value ((a + 1) << 1) | p, in any stored width that holds it, is
\* (no_ploidy = false, is_dot = false, phased = (p = 1), allele = a).
C3_GenotypeLawAsStated ==
    \A a \in AlleleSamples, p \in {0, 1}, tag \in IntTags :
        (call.fn = "gt_val" /\ Fits(tag, Encode(a, p)) /\ val = NV(tag, Encode(a, p)))
            => out = GtTuple(FALSE, FALSE, p = 1, a)

\* C3 amended: the law holds for every allele a in [0, 2^30) and phase bit p
\* whose encoded value is not the missing sentinel of the width it is stored in
\* (0x80, 0x8000, 0x80000000); for the encoded value that is that sentinel
\* (a = 63, 16383 or 2^30 - 1 with p = 0) gt_val reports no_ploidy instead.
C3_GenotypeLaw ==
    \A a \in AlleleSamples, p \in {0, 1}, tag \in IntTags :
        (call.fn = "gt_val" /\ Fits(tag, Encode(a, p)) /\ val = NV(tag, Encode(a, p)))
            => out = IF Encode(a, p) = MissingOf(tag)
                     THEN GtTuple(TRUE, FALSE, FALSE, U32_MAX)
                     ELSE GtTuple(FALSE, FALSE, p = 1, a)

\* the largest allele, phased, stored in 4 bytes: the encoded value has its top bit set
C3_Witness ==
    /\ call.fn = "gt_val"
    /\ val = NV("U32", Encode(W(16383, 65535), 1))
    /\ out = GtTuple(FALSE, FALSE, TRUE, W(16383, 65535))

\* C4: gt_val of a value that is all-ones in its stored width is
\* (no_ploidy = false, is_dot = true, phased = false, _), without failing, and
\* no other non-missing value is reported as is_dot.
C4_AllOnesIsDot ==
    call.fn = "gt_val" /\ val.tag \in IntTags =>
        IF val.bits = AllOnesOf(val.tag)
        THEN out.ok /\ ~out.v.no_ploidy /\ out.v.is_dot /\ ~out.v.phased
        ELSE out.ok => ~out.v.is_dot

\* C5: the float sentinels are recognised by bit pattern: is_missing exactly on
\* 0x7FC00000, is_end_of_vector exactly on 0x7FC00001, and Record::qual is
\* absent exactly when the stored bits are 0x7FC00000.
C5_FloatSentinelByBits ==
    /\ (call.fn = "is_missing" /\ val.tag = "F32") => (out = (val.bits = F32_MISSING))
    /\ (call.fn = "is_end_of_vector" /\ val.tag = "F32") => (out = (val.bits = F32_EOV))
    /\ call.fn = "qual" => out = (IF val.bits = F32_MISSING THEN None ELSE Some(val.bits))

(***************************************************************************)
(* Claims about the header (specification SpecHeader)                      *)
(***************************************************************************)
IsStructured(l) == l.kind = "meta" /\ l.struct

\* the value the items of a structured line give the key k: the last one
ItemValue(l, k) ==
    l.items[CHOOSE i \in 1..Len(l.items) :
                /\ l.items[i][1] = k
                /\ \A j \in (i + 1)..Len(l.items) : l.items[j][1] # k][2]

ItemKeys(l) == {l.items[i][1] : i \in 1..Len(l.items)}

IsExplicitPass(l) ==
    IsStructured(l) /\ l.name = "FILTER" /\ "ID" \in ItemKeys(l) /\ ItemValue(l, "ID") = "PASS"

IsContigLine(l) == IsStructured(l) /\ l.name = "contig"

IsDictLine(l) == IsStructured(l) /\ l.name # "contig" /\ ~IsExplicitPass(l)

\* the dictionary entry a structured line stands for
EntryOfLine(l) ==
    [k \in ItemKeys(l) \cup {"Dictionary"} |->
        IF k = "Dictionary" THEN l.name ELSE ItemValue(l, k)]

ContigOfLine(l) == [k \in ItemKeys(l) |-> ItemValue(l, k)]

MapSeq(Op(_), q) == [i \in 1..Len(q) |-> Op(q[i])]

IsPassEntry(m) ==
    m["Dictionary"] = "FILTER" /\ "ID" \in DOMAIN m /\ m["ID"] = "PASS"

HeaderBuilt == hdr # NoHeader /\ hdr.built /\ hdr.res.ok

IsFmtGt(m) == m["Dictionary"] = "FORMAT" /\ "ID" \in DOMAIN m /\ m["ID"] = "GT"

\* C8: the cached GT index is the (0-based) position in the dictionary sequence
\* of the FORMAT/GT entry, the last one should the text repeat it, and 0 when
\* there is none.
C8_GtIndex ==
    HeaderBuilt =>
        LET h == hdr.res.v
            M == {i \in 0..(Len(h.dict_strings) - 1) : IsFmtGt(h.dict_strings[i + 1])}
        IN  IF M = {} THEN get_fmt_gt_id(h) = 0
            ELSE get_fmt_gt_id(h) \in M /\ \A j \in M : j <= get_fmt_gt_id(h)

\* a header whose only dictionary line is FORMAT/GT: the index is 1
C8_Witness ==
    /\ HeaderBuilt
    /\ Len(text) = 1
    /\ IsStructured(text[1]) /\ text[1].name = "FORMAT" /\ ItemValue(text[1], "ID") = "GT"
    /\ get_fmt_gt_id(hdr.res.v) = 1

(***************************************************************************)
(* Claims about the record reader and the genotype sequence                *)
(* (specification Spec)                                                    *)
(***************************************************************************)
RangeLen(rg) == rg.end - rg.start

Within(rg, buf) == rg.start <= rg.end /\ rg.end <= Len(buf)

\* C1: after a successful read every stored range (ID, alleles, FILTER, INFO
\* entries) lies within the site buffer, every FORMAT range within the
\* individual buffer, the FILTER and INFO ranges are width(type) * count bytes
\* long and the FORMAT ranges width(type) * count * sample_count bytes.
C1_RangeSafety ==
    outcome = "Ok" =>
        /\ Within(rec.id, rec.buf_site)
        /\ \A i \in 1..Len(rec.alleles) : Within(rec.alleles[i], rec.buf_site)
        /\ Within(rec.filters.range, rec.buf_site)
        /\ RangeLen(rec.filters.range) = FormatWidth(rec.filters.typ) * rec.filters.n
        /\ \A i \in 1..Len(rec.info) :
              /\ Within(rec.info[i].range, rec.buf_site)
              /\ RangeLen(rec.info[i].range) = FormatWidth(rec.info[i].typ) * rec.info[i].n
        /\ \A i \in 1..Len(rec.gt) :
              /\ Within(rec.gt[i].range, rec.buf_gt)
              /\ RangeLen(rec.gt[i].range)
                    = FormatWidth(rec.gt[i].typ) * rec.gt[i].n * rec.n_sample

\* the number of bytes the record at the head of src takes (src has its two lengths)
RecordLen(src) == 8 + LEInt(src, 0, 4) + LEInt(src, 4, 4)

\* src ends before the record at its head does
Truncated(src) == Len(src) < 8 \/ Len(src) < RecordLen(src)

\* C6: read gives the normal end-of-stream outcome (Err) only when no byte was
\* left before the shared-length field; a stream that ends anywhere else inside
\* a record gives a fatal outcome the caller can tell apart from it.
C6_EndOfStream ==
    outcome \in {"Ok", "Err", "Panic"} =>
        /\ outcome = "Err" => Len(input) = 0
        /\ (Len(input) > 0 /\ Truncated(input)) => outcome = "Panic"

\* the value of type typ stored at the 0-based offset pos of buf
DecodeAt(buf, pos, typ) ==
    CASE typ = 1 -> NV("U8", W(0, buf[pos + 1]))
      [] typ = 2 -> NV("U16", W(0, buf[pos + 1] + 256 * buf[pos + 2]))
      [] typ = 3 -> NV("U32", W(buf[pos + 3] + 256 * buf[pos + 4],
                               buf[pos + 1] + 256 * buf[pos + 2]))
      [] typ = 5 -> NV("F32", W(buf[pos + 3] + 256 * buf[pos + 4],
                               buf[pos + 1] + 256 * buf[pos + 2]))

GtCalled == outcome = "Ok" /\ it.st # "none"

\* the FORMAT entries whose key is the header's cached GT index
GtMatches == {k \in 1..Len(rec.gt) : rec.gt[k].key = get_fmt_gt_id(hdr.res.v)}

\* C9: on a successfully read record, when a FORMAT entry has the header's GT
\* index as its key, a numeric type t in {1, 2, 3, 5} and per-sample count c,
\* the sequence gt returns yields exactly c * sample_count values, each decoded
\* from the next width(t) bytes of the entry's range, and then stops without
\* failing; when no entry has that key it yields nothing.
C9_GtSequence ==
    GtCalled =>
        IF GtMatches = {}
        THEN it.st # "panic" /\ yielded = <<>>
        ELSE \A k \in GtMatches :
                LET e == rec.gt[k] IN
                e.typ \in {1, 2, 3, 5} =>
                    /\ it.st # "panic"
                    /\ Len(yielded) <= e.n * rec.n_sample
                    /\ it.st = "done" => Len(yielded) = e.n * rec.n_sample
                    /\ \A i \in 1..Len(yielded) :
                          yielded[i] = DecodeAt(rec.buf_gt,
                                                e.range.start + (i - 1) * FormatWidth(e.typ),
                                                e.typ)

\* C10: after a successful read the record holds the latest record only: the
\* buffers are exactly its two bodies, the tables have exactly allele-count,
\* info-count and format-count entries, and the whole record equals what the
\* same read leaves in a fresh Record.
C10_LatestRecordOnly ==
    outcome = "Ok" =>
        LET l_shared == LEInt(input, 0, 4)
            l_indv   == LEInt(input, 4, 4)
        IN  /\ rec.buf_site = SubSeq(input, 9, 8 + l_shared)
            /\ rec.buf_gt = SubSeq(input, 9 + l_shared, 8 + l_shared + l_indv)
            /\ Len(rec.alleles) = LEInt(input, 8 + 18, 2)
            /\ Len(rec.info) = LEInt(input, 8 + 16, 2)
            /\ Len(rec.gt) = input[8 + 24]
            /\ rec = read(DefaultRecord, input, overflow_checks).rec

\* a successful read of a record with no allele and no FORMAT entry into a
\* record that held a larger record before (both buffers and all three
\* tables at least as long, and not all of the same length)
C10_Witness ==
    /\ outcome = "Ok"
    /\ reuse = "shrunk"
    /\ Len(rec.alleles) = 0
    /\ Len(rec.gt) = 0

====
